---- MODULE Spec2Model ----
(***************************************************************************)
(* Model of scraping/smart_session.py: SmartSession, a requests Session    *)
(* that mounts a TimeoutHTTPAdapter carrying a urllib3 Retry policy.       *)
(*                                                                         *)
(* Durations are integers in tenths of a second (0.3 s is 3).              *)
(* A Python optional is a sequence: << >> is None, <<v>> is the value v.   *)
(* Python lists used only for membership (status_forcelist,                *)
(* method_whitelist) are sets.                                             *)
(***************************************************************************)
EXTENDS Integers, Sequences, FiniteSets, TLC

VARIABLES args, session, req, pc, retry, attemptIndex, sent, wait, outcome, result

(* served counts the calls that have returned; calls holds the logical     *)
(* requests in flight when several callers share the session; heap holds   *)
(* the list objects that sessions refer to and sessions the sessions that  *)
(* refer to them.                                                          *)
VARIABLES served, calls, heap, sessions

vars == <<args, session, req, pc, retry, attemptIndex, sent, wait, outcome, result,
          served, calls, heap, sessions>>

None == << >>
Some(v) == <<v>>

-----------------------------------------------------------------------------
(* Bounds of the model                                                     *)

MaxRetriesArg == 2
MaxServed == 1
MaxConcRetries == 1
RetryAfterDelay == 70
BigBackoff == 400

-----------------------------------------------------------------------------
(* Class constants of SmartSession                                         *)

NUM_RETRIES == 5
BACKOFF_FACTOR == 3
(* Variant of the status list with 200 typed for 500.                      *)
STATUS_FORCELIST_Typo == {429, 200, 502, 503, 504}

STATUS_FORCELIST == {429, 500, 502, 503, 504}

(* Variant of the method list that leaves POST out.                        *)
METHOD_WHITELIST_NoPost == {"HEAD", "GET", "PUT", "DELETE", "OPTIONS", "TRACE"}

METHOD_WHITELIST == {"HEAD", "GET", "PUT", "POST", "DELETE", "OPTIONS", "TRACE"}
USER_AGENT == "Mozilla/5.0 (Windows NT 6.1; WOW64) AppleWebKit/537.36 (KHTML, like Gecko) Chrome/56.0.2924.76 Safari/537.36"
TIMEOUT == 5 * 10

(* Constants of the Retry object built by init_all                         *)
BACKOFF_MAX == 120 * 10
RETRY_AFTER_STATUS_CODES == {413, 429, 503}

-----------------------------------------------------------------------------
(* Python's "x or default": a falsy x (None, 0, empty list, empty string)  *)
(* yields the default.                                                     *)

OrInt(x, d) == IF x = None THEN d ELSE IF x[1] = 0 THEN d ELSE x[1]
OrSet(x, d) == IF x = None THEN d ELSE IF x[1] = {} THEN d ELSE x[1]
OrStr(x, d) == IF x = None THEN d ELSE IF x[1] = "" THEN d ELSE x[1]

RECURSIVE Pow2(_)
Pow2(n) == IF n <= 0 THEN 1 ELSE 2 * Pow2(n - 1)

Min(a, b) == IF a <= b THEN a ELSE b

-----------------------------------------------------------------------------
(* urllib3 Retry as configured by init_all: Retry(total, read, connect,    *)
(* backoff_factor, status_forcelist, method_whitelist).  redirect, status  *)
(* and other keep their default None; history holds one entry per failed   *)
(* attempt and only its length matters (no redirect is followed here).     *)

NewRetry(total, read, connect, backoff_factor, status_forcelist, method_whitelist) ==
    [total |-> total, read |-> read, connect |-> connect,
     backoff_factor |-> backoff_factor,
     status_forcelist |-> status_forcelist,
     method_whitelist |-> method_whitelist,
     history |-> 0]

(* Retry._is_method_retryable: an empty whitelist allows every method.     *)
IsMethodRetryable(r, method) ==
    ~(r.method_whitelist # {} /\ method \notin r.method_whitelist)

(* Retry.is_retry(method, status_code, has_retry_after)                    *)
IsRetry(r, method, status_code, has_retry_after) ==
    IF ~IsMethodRetryable(r, method) THEN FALSE
    ELSE IF r.status_forcelist # {} /\ status_code \in r.status_forcelist THEN TRUE
    ELSE r.total # 0 /\ has_retry_after /\ status_code \in RETRY_AFTER_STATUS_CODES

(* Retry.is_exhausted: the zero and None counters are filtered out, the    *)
(* smallest remaining one is compared with 0.                              *)
IsExhausted(r) ==
    LET retry_counts == {c \in {r.total, r.connect, r.read} : c # 0}
    IN  IF retry_counts = {} THEN FALSE
        ELSE \E m \in retry_counts : m < 0 /\ \A c \in retry_counts : m <= c

(* Variant of get_backoff_time that wraps at the maximum.                  *)
GetBackoffTime_Wraps(r) ==
    IF r.history <= 1 THEN 0
    ELSE (r.backoff_factor * Pow2(r.history - 1)) % BACKOFF_MAX

(* Retry.get_backoff_time                                                  *)
GetBackoffTime(r) ==
    IF r.history <= 1 THEN 0
    ELSE Min(BACKOFF_MAX, r.backoff_factor * Pow2(r.history - 1))

(* urlopen: has_retry_after = bool(response.headers.get("Retry-After")),   *)
(* the header being present whatever delay it gives.  The retry_after of   *)
(* an outcome is None without the header, the delay it gives with it.      *)
HasRetryAfter(o) == o.retry_after # None

(* Retry.sleep(response): the delay of a Retry-After header is slept when  *)
(* it is positive, otherwise the exponential backoff is slept.  The value  *)
(* is the time slept.                                                      *)
SleepTime(r, o) ==
    IF o.kind = "status" /\ HasRetryAfter(o) /\ o.retry_after[1] > 0
    THEN o.retry_after[1]
    ELSE GetBackoffTime(r)

IsConnectionError(o) == o.kind = "connect_error"
IsReadError(o) == o.kind \in {"read_timeout", "reset"}

(* Variant of increment that charges a connection error to the connect     *)
(* budget only, not to the total.                                          *)
Increment_ConnectNotCounted(r, method, o) ==
    LET total == IF IsConnectionError(o) THEN r.total ELSE r.total - 1
        reraise == IsReadError(o) /\ ~IsMethodRetryable(r, method)
        connect == IF IsConnectionError(o) THEN r.connect - 1 ELSE r.connect
        read == IF IsReadError(o) THEN r.read - 1 ELSE r.read
        new_retry == [r EXCEPT !.total = total, !.connect = connect,
                               !.read = read, !.history = r.history + 1]
    IN  IF reraise THEN [raised |-> "reraise", retry |-> r]
        ELSE IF IsExhausted(new_retry) THEN [raised |-> "MaxRetryError", retry |-> new_retry]
        ELSE [raised |-> "none", retry |-> new_retry]

(* Retry.increment(method, response | error): the new Retry object and     *)
(* what is raised: "none", "reraise" (the error itself) or "MaxRetryError" *)
Increment(r, method, o) ==
    LET total == r.total - 1
        reraise == IsReadError(o) /\ ~IsMethodRetryable(r, method)
        connect == IF IsConnectionError(o) THEN r.connect - 1 ELSE r.connect
        read == IF IsReadError(o) THEN r.read - 1 ELSE r.read
        new_retry == [r EXCEPT !.total = total, !.connect = connect,
                               !.read = read, !.history = r.history + 1]
    IN  IF reraise THEN [raised |-> "reraise", retry |-> r]
        ELSE IF IsExhausted(new_retry) THEN [raised |-> "MaxRetryError", retry |-> new_retry]
        ELSE [raised |-> "none", retry |-> new_retry]

-----------------------------------------------------------------------------
(* SmartSession.TimeoutHTTPAdapter                                         *)

(* TimeoutHTTPAdapter.__init__: kwargs is a record that may or may not     *)
(* have a "timeout" field.                                                 *)
TimeoutHTTPAdapterInit(kwargs) ==
    [timeout |-> IF "timeout" \in DOMAIN kwargs THEN kwargs.timeout ELSE Some(TIMEOUT),
     max_retries |-> kwargs.max_retries]

(* Variant of send that ignores the timeout of the call.                   *)
AdapterSendTimeout_IgnoresCall(adapter, kwargs_timeout) ==
    adapter.timeout

(* TimeoutHTTPAdapter.send: the timeout handed on to HTTPAdapter.send      *)
AdapterSendTimeout(adapter, kwargs_timeout) ==
    IF kwargs_timeout = None THEN adapter.timeout ELSE kwargs_timeout

(* Variant of send that keeps the timeout of the call on the adapter.      *)
AdapterAfterSend_StoresTimeout(adapter, kwargs_timeout) ==
    [adapter EXCEPT !.timeout = AdapterSendTimeout(adapter, kwargs_timeout)]

(* TimeoutHTTPAdapter.send: the adapter after the call; send writes the    *)
(* kwargs of the call only, never self.                                    *)
AdapterAfterSend(adapter, kwargs_timeout) ==
    adapter

-----------------------------------------------------------------------------
(* SmartSession                                                            *)

(* Variants of init_all: num_retries taken as the number of attempts;      *)
(* the connect and read budgets one short; the class defaults handed to    *)
(* Retry in place of the instance's lists; the header update left out.     *)
init_all_TotalAsAttempts(self) ==
    LET r == NewRetry(self.num_retries - 1, self.num_retries, self.num_retries,
                      self.backoff_factor, self.status_forcelist,
                      self.method_whitelist)
        adapter == TimeoutHTTPAdapterInit([timeout |-> self.timeout, max_retries |-> r])
    IN  [self EXCEPT !.adapter = adapter, !.headers = self.user_agent]

init_all_ShortNetworkBudget(self) ==
    LET r == NewRetry(self.num_retries, self.num_retries - 1, self.num_retries - 1,
                      self.backoff_factor, self.status_forcelist,
                      self.method_whitelist)
        adapter == TimeoutHTTPAdapterInit([timeout |-> self.timeout, max_retries |-> r])
    IN  [self EXCEPT !.adapter = adapter, !.headers = self.user_agent]

init_all_ClassMethods(self) ==
    LET r == NewRetry(self.num_retries, self.num_retries, self.num_retries,
                      self.backoff_factor, self.status_forcelist,
                      METHOD_WHITELIST)
        adapter == TimeoutHTTPAdapterInit([timeout |-> self.timeout, max_retries |-> r])
    IN  [self EXCEPT !.adapter = adapter, !.headers = self.user_agent]

init_all_ClassStatuses(self) ==
    LET r == NewRetry(self.num_retries, self.num_retries, self.num_retries,
                      self.backoff_factor, STATUS_FORCELIST,
                      self.method_whitelist)
        adapter == TimeoutHTTPAdapterInit([timeout |-> self.timeout, max_retries |-> r])
    IN  [self EXCEPT !.adapter = adapter, !.headers = self.user_agent]

init_all_NoHeader(self) ==
    LET r == NewRetry(self.num_retries, self.num_retries, self.num_retries,
                      self.backoff_factor, self.status_forcelist,
                      self.method_whitelist)
        adapter == TimeoutHTTPAdapterInit([timeout |-> self.timeout, max_retries |-> r])
    IN  [self EXCEPT !.adapter = adapter]

(* Variant of init_all that grants one retry more than num_retries.        *)
init_all_ExtraRetry(self) ==
    LET r == NewRetry(self.num_retries + 1, self.num_retries + 1, self.num_retries + 1,
                      self.backoff_factor, self.status_forcelist,
                      self.method_whitelist)
        adapter == TimeoutHTTPAdapterInit([timeout |-> self.timeout, max_retries |-> r])
    IN  [self EXCEPT !.adapter = adapter, !.headers = self.user_agent]

(* SmartSession.init_all                                                   *)
init_all(self) ==
    LET r == NewRetry(self.num_retries, self.num_retries, self.num_retries,
                      self.backoff_factor, self.status_forcelist,
                      self.method_whitelist)
        adapter == TimeoutHTTPAdapterInit([timeout |-> self.timeout, max_retries |-> r])
    IN  [self EXCEPT !.adapter = adapter, !.headers = self.user_agent]

(* SmartSession.__init__                                                   *)
SmartSessionInit(a) ==
    init_all([num_retries |-> OrInt(a.num_retries, NUM_RETRIES),
              backoff_factor |-> OrInt(a.backoff_factor, BACKOFF_FACTOR),
              status_forcelist |-> OrSet(a.status_forcelist, STATUS_FORCELIST),
              method_whitelist |-> OrSet(a.method_whitelist, METHOD_WHITELIST),
              timeout |-> a.timeout,
              user_agent |-> OrStr(a.user_agent, USER_AGENT),
              adapter |-> None,
              headers |-> "python-requests"])

(* Session.prepare_request merges the call's headers over the session's:   *)
(* a header the call passes wins, a header passed as None is dropped.      *)
MergeUserAgent(request_ua, session_ua) ==
    IF request_ua = None THEN Some(session_ua) ELSE request_ua[1]

-----------------------------------------------------------------------------
(* Inputs                                                                  *)

IntArgs(S) == {None} \cup {Some(v) : v \in S}

ConstructorArgs ==
    [num_retries : IntArgs(-1 .. MaxRetriesArg),
     backoff_factor : IntArgs({BigBackoff}),
     status_forcelist : {None, Some({}), Some({500})},
     method_whitelist : {None, Some({}), Some({"GET"})},
     timeout : {None, Some(70)},
     user_agent : {None, Some("my-agent")}]

Methods == {"GET", "POST"}
CallTimeouts == {None, Some(20)}
CallUserAgents == {None, Some(Some("call-agent"))}

Statuses == {200, 404, 413, 500, 503}
NoOutcome == [kind |-> "none", status |-> 0, retry_after |-> None]
Outcomes ==
    [kind : {"status"}, status : Statuses, retry_after : {None}]
    \cup [kind : {"status"}, status : {413, 503}, retry_after : {Some(0), Some(RetryAfterDelay)}]
    \cup [kind : {"connect_error", "read_timeout", "reset"}, status : {0}, retry_after : {None}]

NoReq == [method |-> "", timeout |-> None, user_agent |-> None]
NoSent == [timeout |-> None, user_agent |-> None]

-----------------------------------------------------------------------------
(* State machine                                                           *)

Init ==
    /\ args \in ConstructorArgs
    /\ session = SmartSessionInit(args)
    /\ req = NoReq
    /\ pc = "idle"
    /\ retry = session.adapter.max_retries
    /\ attemptIndex = 0
    /\ sent = NoSent
    /\ wait = 0
    /\ outcome = NoOutcome
    /\ result = "none"
    /\ served = 0
    /\ calls = << >>
    /\ heap = << >>
    /\ sessions = << >>

(* Session.request -> Session.send -> TimeoutHTTPAdapter.send: the first   *)
(* attempt goes to the transport.                                          *)
Request ==
    /\ pc = "idle"
    /\ \E method \in Methods, timeout \in CallTimeouts, ua \in CallUserAgents :
          /\ req' = [method |-> method, timeout |-> timeout, user_agent |-> ua]
          /\ sent' = [timeout |-> AdapterSendTimeout(session.adapter, timeout),
                      user_agent |-> MergeUserAgent(ua, session.headers)]
          /\ session' = [session EXCEPT !.adapter = AdapterAfterSend(session.adapter, timeout)]
    /\ retry' = session.adapter.max_retries
    /\ attemptIndex' = 0
    /\ wait' = 0
    /\ outcome' = NoOutcome
    /\ result' = "none"
    /\ pc' = "attempting"
    /\ UNCHANGED <<args, served, calls, heap, sessions>>

(* HTTPAdapter.send maps what urlopen raises to the requests exception.    *)
RaisedBy(raised, o) ==
    IF raised = "MaxRetryError"
    THEN IF o.kind = "status" THEN "RetryError" ELSE "ConnectionError"
    ELSE IF o.kind = "read_timeout" THEN "ReadTimeout" ELSE "ConnectionError"

(* The transport answers the attempt in flight; urlopen returns the        *)
(* response, raises, or schedules a retry.                                 *)
Attempt ==
    /\ pc = "attempting"
    /\ \E o \in Outcomes :
          LET retryable == IF o.kind = "status"
                           THEN IsRetry(retry, req.method, o.status, HasRetryAfter(o))
                           ELSE TRUE
              inc == Increment(retry, req.method, o)
          IN  /\ outcome' = o
              /\ IF ~retryable
                 THEN /\ result' = "Response"
                      /\ pc' = "done"
                      /\ UNCHANGED <<retry, wait>>
                 ELSE IF inc.raised # "none"
                 THEN /\ result' = RaisedBy(inc.raised, o)
                      /\ pc' = "done"
                      /\ retry' = inc.retry
                      /\ UNCHANGED wait
                 ELSE /\ retry' = inc.retry
                      /\ wait' = SleepTime(inc.retry, o)
                      /\ pc' = "retrying"
                      /\ UNCHANGED result
    /\ UNCHANGED <<args, session, req, attemptIndex, sent, served, calls, heap, sessions>>

(* The backoff wait is over: urlopen sends the next attempt.               *)
Sleep ==
    /\ pc = "retrying"
    /\ pc' = "attempting"
    /\ attemptIndex' = attemptIndex + 1
    /\ UNCHANGED <<args, session, req, retry, sent, wait, outcome, result,
                   served, calls, heap, sessions>>

(* The call returns to the caller: the state of the logical request is     *)
(* gone, the session is ready for the next call.                           *)
Return ==
    /\ pc = "done"
    /\ pc' = "idle"
    /\ req' = NoReq
    /\ retry' = session.adapter.max_retries
    /\ attemptIndex' = 0
    /\ sent' = NoSent
    /\ wait' = 0
    /\ outcome' = NoOutcome
    /\ result' = "none"
    /\ UNCHANGED <<args, session, served, calls, heap, sessions>>

Next == Request \/ Attempt \/ Sleep \/ Return

Spec == Init /\ [][Next]_vars

TypeOK ==
    /\ pc \in {"idle", "attempting", "retrying", "done"}
    /\ attemptIndex \in Nat
    /\ result \in {"none", "Response", "RetryError", "ConnectionError", "ReadTimeout"}

-----------------------------------------------------------------------------
(* Properties                                                              *)

(* The transport has just answered the attempt in flight.                  *)
Answered == pc = "attempting" /\ pc' # "attempting"

NetworkKinds == {"connect_error", "read_timeout", "reset"}

(* C1 as stated: with maxAttempts = N >= 1, a method in retryableMethods   *)
(* and every attempt answered by a status in retryableStatusCodes, the     *)
(* request makes exactly N attempts, the first included, and then ends     *)
(* with MaxRetriesExceeded: an attempt so answered is retried while        *)
(* attemptIndex + 1 < N and ends the request otherwise.                    *)
C1_Case ==
    /\ Answered
    /\ session.num_retries >= 1
    /\ req.method \in session.method_whitelist
    /\ outcome'.kind = "status"
    /\ outcome'.status \in session.status_forcelist

C1_Original ==
    [][C1_Case =>
         IF attemptIndex + 1 < session.num_retries
         THEN pc' = "retrying"
         ELSE pc' = "done" /\ result' = "RetryError"]_vars

(* C1 amended: num_retries = N counts the retries, so the request makes    *)
(* exactly N + 1 attempts: an attempt answered by a retryable status is    *)
(* retried while attemptIndex < N, and the attempt with index N ends the   *)
(* request with MaxRetriesExceeded (RetryError).                           *)
C1_ExhaustionAfterRetries ==
    [][C1_Case =>
         IF attemptIndex < session.num_retries
         THEN pc' = "retrying"
         ELSE /\ pc' = "done"
              /\ result' = "RetryError"
              /\ attemptIndex + 1 = session.num_retries + 1]_vars

C1_Witness ==
    /\ pc = "done"
    /\ result = "RetryError"
    /\ session.num_retries = 2
    /\ attemptIndex = 2
    /\ retry.connect = 2
    /\ retry.read = 2
    /\ req.method \in session.method_whitelist
    /\ outcome.status = 503
    /\ 503 \in session.status_forcelist

(* C2 as stated: the wait slept before the attempt with index k is 0 for   *)
(* k = 0 and backoff_factor * 2^(k-1) for every k >= 1.                    *)
C2_Original ==
    pc = "attempting" =>
        wait = IF attemptIndex = 0 THEN 0
               ELSE session.backoff_factor * Pow2(attemptIndex - 1)

(* C3: a call without a timeout hands the session's timeout to the         *)
(* transport, a call with a timeout hands that timeout on unchanged, on    *)
(* the first attempt and on every retry.                                   *)
C3_TimeoutInjection ==
    pc # "idle" =>
        sent.timeout = IF req.timeout = None THEN session.timeout ELSE req.timeout

C3_Witness ==
    /\ pc = "attempting"
    /\ attemptIndex >= 1
    /\ req.timeout = None
    /\ session.timeout = Some(70)
    /\ sent.timeout = Some(70)

(* C4 as stated: a session built without a timeout hands the adapter's     *)
(* default of 5 seconds to the transport for a call without a timeout.     *)
C4_Original ==
    (pc # "idle" /\ args.timeout = None /\ req.timeout = None) =>
        sent.timeout = Some(TIMEOUT)

(* C5 as stated: a request whose method is not in retryableMethods is      *)
(* never re-attempted, whatever the outcome of the attempt.                *)
C5_Case ==
    /\ Answered
    /\ req.method \notin session.method_whitelist

C5_Original ==
    [][C5_Case => pc' = "done" /\ attemptIndex = 0]_vars

(* C5 amended: for a method not in retryableMethods an attempt that ends   *)
(* in a response (any status) or in a read-level failure (read timeout,    *)
(* connection reset) is never followed by another attempt; only a failure  *)
(* to establish the connection is still retried.                           *)
C5_NoRetryAfterSend ==
    [][(C5_Case /\ outcome'.kind # "connect_error") =>
         /\ pc' = "done"
         /\ result' = IF outcome'.kind = "status" THEN "Response"
                      ELSE IF outcome'.kind = "read_timeout" THEN "ReadTimeout"
                      ELSE "ConnectionError"]_vars

C5_Witness ==
    /\ pc = "done"
    /\ req.method = "POST"
    /\ session.method_whitelist = {"GET"}
    /\ outcome.kind = "status"
    /\ outcome.status \in session.status_forcelist
    /\ attemptIndex = 0
    /\ result = "Response"

(* C6 as stated: a response whose status is not in retryableStatusCodes is *)
(* never followed by another attempt and is returned as a response.        *)
C6_Case ==
    /\ Answered
    /\ outcome'.kind = "status"
    /\ outcome'.status \notin session.status_forcelist

C6_Original ==
    [][C6_Case => pc' = "done" /\ result' = "Response"]_vars

(* C6 amended: a response whose status is not in retryableStatusCodes and  *)
(* which is not a 413, 429 or 503 carrying a Retry-After header is never   *)
(* followed by another attempt and is returned as a response, not raised.  *)
C6_TerminalResponse ==
    [][(C6_Case /\ ~(HasRetryAfter(outcome') /\ outcome'.status \in RETRY_AFTER_STATUS_CODES)) =>
         /\ pc' = "done"
         /\ result' = "Response"
         /\ attemptIndex' = attemptIndex]_vars

C6_Witness ==
    /\ pc = "done"
    /\ attemptIndex = 0
    /\ outcome.kind = "status"
    /\ outcome.status = 503
    /\ session.status_forcelist = {500}
    /\ req.method \in session.method_whitelist
    /\ result = "Response"

(* C7 as stated: for a method in retryableMethods an attempt that ends in  *)
(* a network-level failure is retried while attemptIndex + 1 < maxAttempts *)
(* and otherwise the error is raised to the caller.                        *)
C7_Case ==
    /\ Answered
    /\ req.method \in session.method_whitelist
    /\ outcome'.kind \in NetworkKinds

C7_Original ==
    [][C7_Case =>
         IF attemptIndex + 1 < session.num_retries
         THEN pc' = "retrying"
         ELSE pc' = "done" /\ result' \in {"ConnectionError", "ReadTimeout"}]_vars

(* C7 amended: such an attempt is retried while attemptIndex < num_retries *)
(* so that a request whose every attempt fails this way fails after        *)
(* num_retries + 1 attempts, with a ConnectionError raised to the caller.  *)
C7_NetworkFailureRetried ==
    [][C7_Case =>
         IF attemptIndex < session.num_retries
         THEN pc' = "retrying"
         ELSE pc' = "done" /\ result' = "ConnectionError"]_vars

C7_Witness ==
    /\ pc = "done"
    /\ result = "ConnectionError"
    /\ session.num_retries = 2
    /\ attemptIndex = 2
    /\ retry.connect + retry.read = 1
    /\ retry.connect # retry.read
    /\ req.method \in session.method_whitelist
    /\ outcome.kind \in NetworkKinds

(* C8 as stated: a session built with an empty retryableStatusCodes        *)
(* retries no response status (a Retry-After response set aside), and a    *)
(* session built with an empty retryableMethods retries no request that    *)
(* was sent.                                                               *)
C8_Original ==
    /\ (args.status_forcelist = Some({}) /\ pc = "retrying")
          => (outcome.kind # "status" \/ HasRetryAfter(outcome))
    /\ (args.method_whitelist = Some({}) /\ pc = "retrying")
          => outcome.kind = "connect_error"

(* C9 as stated: no session with maxAttempts < 1 exists, construction with *)
(* such a value having failed: no request is served by a session that was  *)
(* given, or that holds, a num_retries below 1.                            *)
C9_Original ==
    pc # "idle" =>
        /\ args.num_retries = None \/ args.num_retries[1] >= 1
        /\ session.num_retries >= 1

(* C10 as stated: every attempt sent carries the User-Agent configured at  *)
(* construction, whatever the call passes.                                 *)
C10_Original ==
    pc # "idle" => sent.user_agent = Some(session.user_agent)

(* C10 amended: every attempt of a call that passes no User-Agent header   *)
(* of its own, the first and every retry, carries the User-Agent           *)
(* configured at construction: the given value, or the class default.      *)
C10_HeaderPresence ==
    (pc # "idle" /\ req.user_agent = None) =>
        sent.user_agent = Some(OrStr(args.user_agent, USER_AGENT))

C10_Witness ==
    /\ pc = "attempting"
    /\ attemptIndex >= 1
    /\ req.user_agent = None
    /\ args.user_agent = Some("my-agent")
    /\ sent.user_agent = Some("my-agent")

(* C11: a session built without a method list holds the default list, POST *)
(* included: a POST answered by a status of the retryable set is retried   *)
(* while retries remain and then ends in RetryError, as a GET is.          *)
C11_PostRetriedByDefault ==
    [][(Answered /\ args.method_whitelist = None
          /\ outcome'.kind = "status"
          /\ outcome'.status \in session.status_forcelist) =>
         /\ session.method_whitelist = {"HEAD", "GET", "PUT", "POST", "DELETE", "OPTIONS", "TRACE"}
         /\ IF attemptIndex < session.num_retries
            THEN pc' = "retrying"
            ELSE pc' = "done" /\ result' = "RetryError"]_vars

C11_Witness ==
    /\ pc = "retrying"
    /\ req.method = "POST"
    /\ args.method_whitelist = None
    /\ outcome.kind = "status"
    /\ outcome.status = 503
    /\ outcome.retry_after = None
    /\ attemptIndex = 1

(* The backoff computed by the Retry object of the request in flight once  *)
(* k failures are recorded.                                                *)
BackoffAt(k) == GetBackoffTime([retry EXCEPT !.history = k])

(* C14: the backoff is never negative and never decreases as the attempt   *)
(* index grows: 0 <= backoff(i) <= backoff(j) for all i <= j of a request, *)
(* and it is the wait slept when no Retry-After header is obeyed.          *)
C14_BackoffMonotone ==
    pc # "idle" =>
        /\ \A i, j \in 0 .. retry.history :
              i <= j => (0 <= BackoffAt(i) /\ BackoffAt(i) <= BackoffAt(j))
        /\ (pc = "retrying" /\ outcome.retry_after \in {None, Some(0)})
              => wait = BackoffAt(retry.history)

C14_Witness ==
    /\ pc = "retrying"
    /\ retry.history = 4
    /\ outcome.retry_after = None
    /\ session.backoff_factor = BigBackoff
    /\ BackoffAt(2) = 2 * BigBackoff
    /\ wait = BACKOFF_MAX

(* C15: a first attempt answered by a 200 ends the request: one attempt,   *)
(* no backoff wait, the response returned.                                 *)
C15_ImmediateSuccess ==
    [][(Answered /\ attemptIndex = 0 /\ outcome'.kind = "status" /\ outcome'.status = 200) =>
         /\ pc' = "done"
         /\ result' = "Response"
         /\ attemptIndex' = 0
         /\ wait' = 0]_vars

C15_Witness ==
    /\ pc = "done"
    /\ attemptIndex = 0
    /\ outcome.kind = "status"
    /\ outcome.status = 200
    /\ result = "Response"
    /\ wait = 0

(* The moves of a logical request: idle (INIT) -> attempting -> done       *)
(* (SUCCESS, EXHAUSTED) or retrying -> attempting with the next index.     *)
C16_Moves ==
    /\ pc = "idle" => (pc' = "attempting" /\ attemptIndex' = 0)
    /\ pc = "attempting" => (pc' \in {"done", "retrying"} /\ attemptIndex' = attemptIndex)
    /\ pc = "retrying" => (pc' = "attempting" /\ attemptIndex' = attemptIndex + 1)
    /\ pc = "done" => (pc' = "idle" /\ attemptIndex' = 0 /\ wait' = 0)

(* C16 as stated: the moves above, RETRYING entered only after an outcome  *)
(* that shouldRetry accepts: the method in retryableMethods, a network     *)
(* failure or a status in retryableStatusCodes, attemptIndex + 1 below     *)
(* maxAttempts.                                                            *)
C16_Original ==
    [][/\ C16_Moves
       /\ pc' = "retrying" =>
            /\ attemptIndex + 1 < session.num_retries
            /\ req.method \in session.method_whitelist
            /\ \/ outcome'.kind \in NetworkKinds
               \/ outcome'.status \in session.status_forcelist]_vars

(* C16 amended: the moves above, RETRYING entered only after an outcome    *)
(* the retry policy accepts with retries remaining: attemptIndex below     *)
(* num_retries and either a connection failure, or, for a method in        *)
(* retryableMethods, a read failure, a status in retryableStatusCodes or   *)
(* a 413, 429 or 503 with a Retry-After header.                            *)
C16_StateMachine ==
    [][/\ C16_Moves
       /\ pc' = "retrying" =>
            /\ attemptIndex < session.num_retries
            /\ \/ outcome'.kind = "connect_error"
               \/ /\ req.method \in session.method_whitelist
                  /\ \/ outcome'.kind \in {"read_timeout", "reset"}
                     \/ outcome'.kind = "status" /\ outcome'.status \in session.status_forcelist
                     \/ /\ outcome'.kind = "status"
                        /\ HasRetryAfter(outcome')
                        /\ outcome'.status \in RETRY_AFTER_STATUS_CODES]_vars

C16_Witness ==
    /\ pc = "attempting"
    /\ attemptIndex = 2
    /\ session.num_retries = 2
    /\ outcome.kind = "read_timeout"
    /\ retry.history = 2

(* C19 speaks of a deadline or cancellation signal given by the caller.    *)
(* SmartSession and TimeoutHTTPAdapter.send take no such input: the only   *)
(* time a caller gives is the timeout of the call, which bounds one        *)
(* attempt and whose expiry is a read failure, retried like any other.     *)
(* No state of this model holds a signal that could fire, so no formula    *)
(* over it states the claim.                                               *)

(* The transport answers every attempt and every backoff wait ends.        *)
SpecLive == Init /\ [][Next]_vars /\ WF_vars(Attempt) /\ WF_vars(Sleep)

(* C20: with total = read = connect = num_retries, whatever mix of         *)
(* connection failures, read failures and retryable statuses answers the   *)
(* attempts, a request makes at most num_retries retries after its first   *)
(* attempt (none when num_retries is negative), no budget of one kind      *)
(* outlasting the total, and every request in flight reaches a terminal    *)
(* state.                                                                  *)
C20_BoundedRetries ==
    /\ [](pc # "idle" =>
            /\ attemptIndex <= (IF session.num_retries < 0 THEN 0 ELSE session.num_retries)
            /\ attemptIndex <= retry.history
            /\ retry.history <= attemptIndex + 1
            /\ retry.total = session.num_retries - retry.history
            /\ retry.total <= retry.connect
            /\ retry.total <= retry.read)
    /\ (pc = "attempting" ~> pc = "done")

C20_Witness ==
    /\ pc = "done"
    /\ session.num_retries = 2
    /\ attemptIndex = 2
    /\ retry.total = -1
    /\ retry.connect = 1
    /\ retry.read = 1
    /\ outcome.kind = "status"
    /\ result = "RetryError"

-----------------------------------------------------------------------------
(* One session serving one call after the other                            *)

InitReuse ==
    /\ Init
    /\ args.backoff_factor = None
    /\ args.user_agent = None

(* The call returns to the caller and is counted.                          *)
ReturnCounted ==
    /\ pc = "done"
    /\ pc' = "idle"
    /\ req' = NoReq
    /\ retry' = session.adapter.max_retries
    /\ attemptIndex' = 0
    /\ sent' = NoSent
    /\ wait' = 0
    /\ outcome' = NoOutcome
    /\ result' = "none"
    /\ served' = Min(served + 1, MaxServed)
    /\ UNCHANGED <<args, session, calls, heap, sessions>>

NextReuse == Request \/ Attempt \/ Sleep \/ ReturnCounted

SpecReuse == InitReuse /\ [][NextReuse]_vars

(* C17: no step of a request writes the session's configuration, and the   *)
(* request issued after one that ended, in a response or in an error,      *)
(* starts at attemptIndex 0 with the full budget of num_retries, the       *)
(* session's timeout and the session's header.                             *)
C17_SessionReusable ==
    [][/\ session' = session
       /\ args' = args
       /\ (pc = "idle" /\ pc' = "attempting") =>
            /\ attemptIndex' = 0
            /\ wait' = 0
            /\ retry' = session.adapter.max_retries
            /\ retry'.total = session.num_retries
            /\ retry'.history = 0
            /\ retry'.status_forcelist = session.status_forcelist
            /\ retry'.method_whitelist = session.method_whitelist
            /\ sent'.timeout = (IF req'.timeout = None THEN session.timeout ELSE req'.timeout)
            /\ req'.user_agent = None => sent'.user_agent = Some(session.user_agent)]_vars

C17_Witness ==
    /\ served >= 1
    /\ pc = "attempting"
    /\ attemptIndex = 0
    /\ session.num_retries = 2
    /\ retry.total = 2
    /\ retry.history = 0
    /\ req.timeout = None
    /\ sent.timeout = session.timeout

-----------------------------------------------------------------------------
(* Two callers issuing requests on one session, their steps interleaved    *)

Calls == {1, 2}

ConcArgs ==
    [num_retries : {Some(n) : n \in 1 .. MaxConcRetries},
     backoff_factor : {None},
     status_forcelist : {None},
     method_whitelist : {None, Some({"GET"})},
     timeout : {None, Some(70)},
     user_agent : {None}]

(* The state of one logical request: what Session.request and urlopen keep *)
(* in locals for it.                                                       *)
IdleCall(s) ==
    [pc |-> "idle", req |-> NoReq, retry |-> s.adapter.max_retries,
     attemptIndex |-> 0, sent |-> NoSent, wait |-> 0, result |-> "none"]

InitConc ==
    /\ args \in ConcArgs
    /\ session = SmartSessionInit(args)
    /\ req = NoReq
    /\ pc = "idle"
    /\ retry = session.adapter.max_retries
    /\ attemptIndex = 0
    /\ sent = NoSent
    /\ wait = 0
    /\ outcome = NoOutcome
    /\ result = "none"
    /\ served = 0
    /\ calls = [i \in Calls |-> IdleCall(session)]
    /\ heap = << >>
    /\ sessions = << >>

ConcFrame ==
    UNCHANGED <<args, req, pc, retry, attemptIndex, sent, wait, outcome, result,
                served, heap, sessions>>

(* Caller i: Session.request -> TimeoutHTTPAdapter.send, first attempt.    *)
CallRequest(i) ==
    /\ calls[i].pc = "idle"
    /\ \E method \in Methods, timeout \in CallTimeouts :
          /\ calls' = [calls EXCEPT ![i] =
                [pc |-> "attempting",
                 req |-> [method |-> method, timeout |-> timeout, user_agent |-> None],
                 retry |-> session.adapter.max_retries,
                 attemptIndex |-> 0,
                 sent |-> [timeout |-> AdapterSendTimeout(session.adapter, timeout),
                           user_agent |-> MergeUserAgent(None, session.headers)],
                 wait |-> 0,
                 result |-> "none"]]
          /\ session' = [session EXCEPT !.adapter = AdapterAfterSend(session.adapter, timeout)]
    /\ ConcFrame

(* Caller i: the transport answers its attempt in flight.                  *)
CallAttempt(i) ==
    /\ calls[i].pc = "attempting"
    /\ \E o \in Outcomes :
          LET c == calls[i]
              retryable == IF o.kind = "status"
                           THEN IsRetry(c.retry, c.req.method, o.status, HasRetryAfter(o))
                           ELSE TRUE
              inc == Increment(c.retry, c.req.method, o)
          IN  calls' = [calls EXCEPT ![i] =
                IF ~retryable
                THEN [c EXCEPT !.pc = "done", !.result = "Response"]
                ELSE IF inc.raised # "none"
                THEN [c EXCEPT !.pc = "done", !.result = RaisedBy(inc.raised, o),
                               !.retry = inc.retry]
                ELSE [c EXCEPT !.pc = "retrying", !.retry = inc.retry,
                               !.wait = SleepTime(inc.retry, o)]]
    /\ UNCHANGED session
    /\ ConcFrame

(* Caller i: its backoff wait is over, the next attempt is sent.           *)
CallSleep(i) ==
    /\ calls[i].pc = "retrying"
    /\ calls' = [calls EXCEPT ![i].pc = "attempting",
                              ![i].attemptIndex = calls[i].attemptIndex + 1]
    /\ UNCHANGED session
    /\ ConcFrame

(* Caller i: its call returns.                                             *)
CallReturn(i) ==
    /\ calls[i].pc = "done"
    /\ calls' = [calls EXCEPT ![i] = IdleCall(session)]
    /\ UNCHANGED session
    /\ ConcFrame

NextConc ==
    \E i \in Calls : CallRequest(i) \/ CallAttempt(i) \/ CallSleep(i) \/ CallReturn(i)

SpecConc == InitConc /\ [][NextConc]_vars

(* What holds of a request in flight when it runs alone on the session.    *)
CallAlone(c) ==
    c.pc # "idle" =>
        /\ c.attemptIndex <= session.num_retries
        /\ c.attemptIndex <= c.retry.history
        /\ c.retry.history <= c.attemptIndex + 1
        /\ c.retry.total = session.num_retries - c.retry.history
        /\ c.sent.timeout = (IF c.req.timeout = None THEN session.timeout ELSE c.req.timeout)
        /\ c.pc = "retrying" => c.wait \in {GetBackoffTime(c.retry), RetryAfterDelay}
        /\ c.result = "RetryError" => c.attemptIndex = session.num_retries

(* C18: under any interleaving of two requests on one session a step of    *)
(* one request changes nothing of the other (attempt index, budget, wait,  *)
(* timeout) nor the session, and each request keeps the index, budget,     *)
(* waits, timeout and end it has when it runs alone.                       *)
C18_IndependentRequests ==
    /\ [][/\ session' = session
          /\ \A i \in Calls : calls'[i] # calls[i] =>
                \A j \in Calls \ {i} : calls'[j] = calls[j]]_vars
    /\ [](\A i \in Calls : CallAlone(calls[i]))

C18_Witness ==
    /\ calls[1].pc = "retrying"
    /\ calls[1].attemptIndex = 0
    /\ calls[1].req.timeout = Some(20)
    /\ calls[2].pc = "done"
    /\ calls[2].attemptIndex = 1
    /\ calls[2].result = "RetryError"
    /\ calls[2].req.timeout = None
    /\ calls[2].sent.timeout = session.timeout

-----------------------------------------------------------------------------
(* Two sessions and the list objects they refer to.  A Python list is an   *)
(* object: heap maps its identity to its contents, and a session, like the *)
(* Retry built from it, holds the identity.                                *)

SessionIds == {"A", "B"}
ClassStatus == <<"SmartSession", "STATUS_FORCELIST">>
ClassMethods == <<"SmartSession", "METHOD_WHITELIST">>
OwnStatus(s) == <<s, "status_forcelist">>
OwnMethods(s) == <<s, "method_whitelist">>

DefaultArgs ==
    [num_retries |-> None, backoff_factor |-> None, status_forcelist |-> None,
     method_whitelist |-> None, timeout |-> None, user_agent |-> None]

(* "x or default" on list objects: the result is one of the two objects.   *)
OrRef(x, d, h) == IF x = None THEN d ELSE IF h[x[1]] = {} THEN d ELSE x[1]

(* SmartSession.__init__ with the lists held by reference                  *)
SharedSessionInit(a, h) ==
    init_all([num_retries |-> OrInt(a.num_retries, NUM_RETRIES),
              backoff_factor |-> OrInt(a.backoff_factor, BACKOFF_FACTOR),
              status_forcelist |-> OrRef(a.status_forcelist, ClassStatus, h),
              method_whitelist |-> OrRef(a.method_whitelist, ClassMethods, h),
              timeout |-> a.timeout,
              user_agent |-> OrStr(a.user_agent, USER_AGENT),
              adapter |-> None,
              headers |-> "python-requests"])

ShareArgs(s) ==
    [num_retries : {None},
     backoff_factor : {None},
     status_forcelist : {None, Some(OwnStatus(s))},
     method_whitelist : {None, Some(OwnMethods(s))},
     timeout : {None, Some(70)},
     user_agent : {None}]

InitShare ==
    /\ args = DefaultArgs
    /\ session = SmartSessionInit(args)
    /\ req = NoReq
    /\ pc = "idle"
    /\ retry = session.adapter.max_retries
    /\ attemptIndex = 0
    /\ sent = NoSent
    /\ wait = 0
    /\ outcome = NoOutcome
    /\ result = "none"
    /\ served = 0
    /\ calls = << >>
    /\ heap = [id \in {ClassStatus, ClassMethods}
                      \cup {OwnStatus(s) : s \in SessionIds}
                      \cup {OwnMethods(s) : s \in SessionIds} |->
                 IF id = ClassStatus THEN STATUS_FORCELIST
                 ELSE IF id = ClassMethods THEN METHOD_WHITELIST
                 ELSE {}]
    /\ sessions = << >>

ShareFrame ==
    UNCHANGED <<args, session, req, pc, retry, attemptIndex, sent, wait, outcome,
                result, served, calls>>

(* s = SmartSession(...): the caller may pass lists of its own.            *)
Construct(s) ==
    /\ s \notin DOMAIN sessions
    /\ \E a \in ShareArgs(s), st \in {{}, {500}}, mt \in {{"GET"}} :
          LET h == [heap EXCEPT ![OwnStatus(s)] = IF a.status_forcelist = None THEN {} ELSE st,
                                ![OwnMethods(s)] = IF a.method_whitelist = None THEN {} ELSE mt]
          IN  /\ heap' = h
              /\ sessions' = sessions @@ (s :> SharedSessionInit(a, h))
    /\ ShareFrame

(* s.status_forcelist.append(code)                                         *)
AppendStatus(s) ==
    /\ s \in DOMAIN sessions
    /\ \E code \in {404} :
          /\ code \notin heap[sessions[s].status_forcelist]
          /\ heap' = [heap EXCEPT ![sessions[s].status_forcelist] = @ \cup {code}]
    /\ UNCHANGED sessions
    /\ ShareFrame

(* s.method_whitelist.append(method)                                       *)
AppendMethod(s) ==
    /\ s \in DOMAIN sessions
    /\ \E method \in {"PATCH"} :
          /\ method \notin heap[sessions[s].method_whitelist]
          /\ heap' = [heap EXCEPT ![sessions[s].method_whitelist] = @ \cup {method}]
    /\ UNCHANGED sessions
    /\ ShareFrame

(* s.timeout = t                                                           *)
SetTimeout(s) ==
    /\ s \in DOMAIN sessions
    /\ \E t \in {None, Some(20)} :
          /\ t # sessions[s].timeout
          /\ sessions' = [sessions EXCEPT ![s].timeout = t]
    /\ UNCHANGED heap
    /\ ShareFrame

(* s.init_all()                                                            *)
InitAllAgain(s) ==
    /\ s \in DOMAIN sessions
    /\ sessions' = [sessions EXCEPT ![s] = init_all(sessions[s])]
    /\ UNCHANGED heap
    /\ ShareFrame

NextShare ==
    \E s \in SessionIds :
        Construct(s) \/ AppendStatus(s) \/ AppendMethod(s) \/ SetTimeout(s) \/ InitAllAgain(s)

SpecShare == InitShare /\ [][NextShare]_vars

(* What the requests of session s go by: the retry configuration of its    *)
(* adapter, lists read through their identity, its timeout and its header. *)
View(s) ==
    LET a == sessions[s].adapter
    IN  [total |-> a.max_retries.total,
         backoff_factor |-> a.max_retries.backoff_factor,
         status_forcelist |-> heap[a.max_retries.status_forcelist],
         method_whitelist |-> heap[a.max_retries.method_whitelist],
         timeout |-> a.timeout,
         headers |-> sessions[s].headers]

(* The defaults a session constructed later falls back to.                 *)
Defaults == <<heap[ClassStatus], heap[ClassMethods]>>

(* C12 as stated: sessions share nothing: an operation on one session      *)
(* changes what that session goes by at most, never what another session   *)
(* goes by nor the defaults of the sessions constructed later.             *)
C12_Original ==
    [][/\ Defaults' = Defaults
       /\ \A s, t \in DOMAIN sessions :
             (s # t /\ View(s)' # View(s)) => View(t)' = View(t)]_vars

====
